---- MODULE Spec2Model ----
(***************************************************************************)
(* Model of the GrimoireLab metrics tools:                                 *)
(*   - GitEventsAnalyzer (trustable_cli/metrics.py): the accumulator that  *)
(*     folds commit events into tallies, and its derived metrics;          *)
(*   - the readiness poller generate_metrics_when_ready/repository_ready   *)
(*     in its two variants (grimoirelab_metrics/cli.py, trustable_cli/     *)
(*     cli.py) on top of GrimoireLabClient._make_request.                  *)
(* Spec is the analyzer; PollSpec / PollFairSpec are the poller.           *)
(***************************************************************************)
EXTENDS Integers, Sequences, FiniteSets, TLC

VARIABLES
    \* ---- GitEventsAnalyzer fields (metrics.py:49-56)
    total_commits, contributors, companies, file_types,
    added_lines, removed_lines, messages_sizes,
    \* exception that left a process_events call, "none" while none did
    exc,
    \* what the events handed to process_events so far held
    fed,
    \* ---- poller (cli.py generate_metrics_when_ready and its caller)
    variant, timeout, packages, pc, pending, to_visit, processed, metrics,
    now, limit_time, warnings, output, exit_code, error,
    refresh_token, poll_seconds, polls, metrics_calls, always_running, last_poll,
    \* ---- schedule_repositories: the repositories still to schedule, the
    \* call in progress (repository, exchange, exception) and the calls made
    to_schedule, scheduling, schedule_calls,
    \* ---- what was handed to the program, and what it gave back: the events
    \* handed to the analyzer, the last two get_repository_metrics runs, the
    \* one get / post call made on the client
    seen, docs, call

avars == <<total_commits, contributors, companies, file_types,
           added_lines, removed_lines, messages_sizes, exc, fed>>

pvars == <<variant, timeout, packages, pc, pending, to_visit, processed,
           metrics, now, limit_time, warnings, output, exit_code, error,
           refresh_token, poll_seconds, polls, metrics_calls, always_running, last_poll,
           to_schedule, scheduling, schedule_calls>>

vars == <<total_commits, contributors, companies, file_types,
          added_lines, removed_lines, messages_sizes, exc, fed,
          variant, timeout, packages, pc, pending, to_visit, processed,
          metrics, now, limit_time, warnings, output, exit_code, error,
          refresh_token, poll_seconds, polls, metrics_calls, always_running, last_poll,
          to_schedule, scheduling, schedule_calls,
          seen, docs, call>>

-----------------------------------------------------------------------------
(* Bounds *)

\* commits one analyzer accumulates
MaxCommits == 4
\* events in one process_events call
MaxBatch == 2
\* commits one analyzer accumulates when all of them are well formed
MaxTally == 7
\* events handed to one analyzer when they are kept
MaxSeen == 3
\* answers the server gives in the course of one get / post call
MaxRequests == 4

-----------------------------------------------------------------------------
(* Events.  A dict is a record whose DOMAIN is the set of keys present; a   *)
(* string is a sequence of characters; a JSON value that may be a number,   *)
(* a string or null is tagged with k.                                       *)

COMMIT_EVENT_TYPE == "org.grimoirelab.events.git.commit"
OTHER_EVENT_TYPE == "org.grimoirelab.events.git.merge"
AUTHOR_FIELD == "Author"

CodeSuffixes ==
    {".bazel", ".bazelrc", ".bzl", ".c", ".cc", ".cp", ".cpp", ".cxx", ".c++",
     ".go", ".h", ".js", ".mjs", ".java", ".py", ".rs", ".sh", ".tf", ".ts"}

JInt(n) == [k |-> "int", n |-> n]
JStr(s) == [k |-> "str", s |-> s]
JNull == [k |-> "null"]

\* authors "a@x>", "b@x>", "c@y>" and "d" (no address)
AuthA == <<"a", "@", "x", ">">>
AuthB == <<"b", "@", "x", ">">>
AuthC == <<"c", "@", "y", ">">>
AuthD == <<"d">>

Msg == JStr(<<"f", "i", "x">>)

\* paths are a stem followed by the suffix the pattern looks at
PathPy == <<"m", ".py">>
PathMd == <<"r", ".md">>

FCode == [file |-> PathPy, added |-> JStr(<<"1", "2">>), removed |-> JInt(1)]
FDash == [file |-> PathMd, added |-> JStr(<<"-">>), removed |-> JStr(<<"-">>)]
FEmptyPath == [file |-> <<>>, added |-> JInt(5), removed |-> JInt(5)]
FNoPath == [added |-> JInt(7), removed |-> JInt(7)]
FNullAdded == [file |-> PathPy, added |-> JNull, removed |-> JInt(2)]
FOnlyRemoved == [file |-> <<"Makefile">>, removed |-> JStr(<<"-", "3">>)]

Commit(data) == [type |-> COMMIT_EVENT_TYPE, data |-> data]

Events ==
    { Commit([Author |-> AuthA, message |-> Msg]),
      Commit([Author |-> AuthB, files |-> <<FCode, FDash>>]),
      Commit([Author |-> AuthC, message |-> Msg, files |-> <<FEmptyPath, FCode, FOnlyRemoved>>]),
      Commit([Author |-> AuthD, message |-> JStr(<<>>)]),
      Commit([message |-> Msg, files |-> <<FCode>>]),
      Commit([Author |-> AuthA, message |-> Msg, files |-> <<FNoPath, FCode>>]),
      Commit([Author |-> AuthC, message |-> Msg, files |-> <<FNullAdded>>]),
      Commit([Author |-> AuthB, message |-> JNull]),
      [type |-> COMMIT_EVENT_TYPE],
      [type |-> OTHER_EVENT_TYPE, data |-> [Author |-> AuthA, message |-> Msg, files |-> <<FCode>>]] }

Batches == UNION { [1..n -> Events] : n \in 0..MaxBatch }

\* commits as the index holds them for most repositories: an author and a
\* message; one of them lost its Author
PlainEvents ==
    { Commit([Author |-> AuthA, message |-> Msg]),
      Commit([Author |-> AuthB, message |-> Msg]),
      Commit([Author |-> AuthC, message |-> Msg]),
      Commit([Author |-> AuthD, message |-> Msg]),
      Commit([message |-> Msg]) }

PlainBatches == UNION { [1..n -> PlainEvents] : n \in 0..MaxBatch }

IsCommit(event) == event.type = COMMIT_EVENT_TYPE

RECURSIVE CommitsIn(_)
CommitsIn(events) ==
    IF events = <<>> THEN 0
    ELSE (IF IsCommit(Head(events)) THEN 1 ELSE 0) + CommitsIn(Tail(events))

-----------------------------------------------------------------------------
(* collections.Counter: keys in first-seen order with their counts *)

CounterHas(c, key) == \E i \in 1..Len(c) : c[i].key = key

CounterInc(c, key) ==
    IF CounterHas(c, key)
    THEN [i \in 1..Len(c) |-> IF c[i].key = key THEN [c[i] EXCEPT !.n = @ + 1] ELSE c[i]]
    ELSE Append(c, [key |-> key, n |-> 1])

CounterGet(c, key) ==
    IF CounterHas(c, key) THEN (CHOOSE e \in {c[i] : i \in 1..Len(c)} : e.key = key).n ELSE 0

RECURSIVE CounterSum(_)
CounterSum(c) == IF c = <<>> THEN 0 ELSE Head(c).n + CounterSum(Tail(c))

\* Counter.most_common(): descending count, equal counts in first-seen order
RECURSIVE InsertDesc(_, _)
InsertDesc(sorted, e) ==
    IF sorted = <<>> THEN <<e>>
    ELSE IF Head(sorted).n >= e.n THEN <<Head(sorted)>> \o InsertDesc(Tail(sorted), e)
    ELSE <<e>> \o sorted

RECURSIVE most_common(_)
most_common(c) ==
    IF c = <<>> THEN <<>>
    ELSE InsertDesc(most_common(SubSeq(c, 1, Len(c) - 1)), c[Len(c)])

-----------------------------------------------------------------------------
(* str.split, int() and re.search as the analyzer uses them *)

\* s.split(sep): the segments between the occurrences of sep
RECURSIVE Split(_, _)
Split(s, sep) ==
    IF \E i \in 1..Len(s) : s[i] = sep
    THEN LET i == CHOOSE j \in 1..Len(s) : s[j] = sep /\ \A h \in 1..(j - 1) : s[h] # sep
         IN <<SubSeq(s, 1, i - 1)>> \o Split(SubSeq(s, i + 1, Len(s)), sep)
    ELSE <<s>>

\* s[:-1]
DropLast(s) == SubSeq(s, 1, Len(s) - 1)

Digits == {"0", "1", "2", "3", "4", "5", "6", "7", "8", "9"}
DigitVal(ch) == CHOOSE d \in 0..9 : ch = ToString(d)

RECURSIVE DigitsVal(_)
DigitsVal(s) == IF s = <<>> THEN 0 ELSE 10 * DigitsVal(DropLast(s)) + DigitVal(s[Len(s)])

AllDigits(s) == s # <<>> /\ \A i \in 1..Len(s) : s[i] \in Digits

\* int(value): the integer, or the exception it raises
IntOf(val) ==
    IF val.k = "int" THEN [ok |-> TRUE, v |-> val.n, exc |-> "none"]
    ELSE IF val.k = "null" THEN [ok |-> FALSE, v |-> 0, exc |-> "TypeError"]
    ELSE IF AllDigits(val.s) THEN [ok |-> TRUE, v |-> DigitsVal(val.s), exc |-> "none"]
    ELSE IF val.s # <<>> /\ val.s[1] \in {"-", "+"} /\ AllDigits(Tail(val.s))
         THEN [ok |-> TRUE,
               v |-> IF val.s[1] = "-" THEN 0 - DigitsVal(Tail(val.s)) ELSE DigitsVal(Tail(val.s)),
               exc |-> "none"]
    ELSE [ok |-> FALSE, v |-> 0, exc |-> "ValueError"]

\* re.search(FILE_TYPE_CODE, path): the path ends with one of the suffixes
MatchesCode(path) == path # <<>> /\ path[Len(path)] \in CodeSuffixes

-----------------------------------------------------------------------------
(* GitEventsAnalyzer: the state as one record, one operator per method *)

NewAnalyzer ==
    [total_commits |-> 0, contributors |-> <<>>, companies |-> <<>>,
     file_types |-> <<>>, added_lines |-> 0, removed_lines |-> 0,
     messages_sizes |-> <<>>, exc |-> "none"]

Self ==
    [total_commits |-> total_commits, contributors |-> contributors,
     companies |-> companies, file_types |-> file_types,
     added_lines |-> added_lines, removed_lines |-> removed_lines,
     messages_sizes |-> messages_sizes, exc |-> "none"]

_update_companies(st, event) ==
    IF AUTHOR_FIELD \notin DOMAIN event THEN st                    \* KeyError, passed
    ELSE LET parts == Split(event[AUTHOR_FIELD], "@")
         IN IF Len(parts) < 2 THEN st                              \* IndexError, passed
            ELSE [st EXCEPT !.companies = CounterInc(@, DropLast(parts[2]))]

\* the added / removed part of one file entry
AddLines(st, file, field) ==
    IF st.exc # "none" \/ field \notin DOMAIN file THEN st
    ELSE LET r == IntOf(file[field])
         IN IF r.ok
            THEN IF field = "added"
                 THEN [st EXCEPT !.added_lines = @ + r.v]
                 ELSE [st EXCEPT !.removed_lines = @ + r.v]
            ELSE IF r.exc = "ValueError" THEN st
            ELSE [st EXCEPT !.exc = r.exc]

\* an entry with an empty path counted like any other
FileEntry_CountEmpty(st, file) ==
    IF "file" \notin DOMAIN file THEN [st EXCEPT !.exc = "KeyError"]
    ELSE LET typed == [st EXCEPT !.file_types =
                          CounterInc(@, IF MatchesCode(file.file) THEN "code" ELSE "other")]
         IN AddLines(AddLines(typed, file, "added"), file, "removed")

FileEntry(st, file) ==
    IF "file" \notin DOMAIN file THEN [st EXCEPT !.exc = "KeyError"]
    ELSE IF file.file = <<>> THEN st
    ELSE LET typed == [st EXCEPT !.file_types =
                          CounterInc(@, IF MatchesCode(file.file) THEN "code" ELSE "other")]
         IN AddLines(AddLines(typed, file, "added"), file, "removed")

\* the loop left at the first entry with an empty path (break for continue)
RECURSIVE FileLoop_StopAtEmpty(_, _)
FileLoop_StopAtEmpty(st, files) ==
    IF files = <<>> \/ st.exc # "none" THEN st
    ELSE IF "file" \in DOMAIN Head(files) /\ Head(files).file = <<>> THEN st
    ELSE FileLoop_StopAtEmpty(FileEntry(st, Head(files)), Tail(files))

RECURSIVE FileLoop(_, _)
FileLoop(st, files) ==
    IF files = <<>> \/ st.exc # "none" THEN st
    ELSE FileLoop(FileEntry(st, Head(files)), Tail(files))

_update_file_metrics(st, event) ==
    IF "files" \notin DOMAIN event THEN st ELSE FileLoop(st, event.files)

_update_message_size_metrics(st, event) ==
    IF "message" \notin DOMAIN event
    THEN [st EXCEPT !.messages_sizes = Append(@, 0)]
    ELSE IF event.message.k # "str" THEN [st EXCEPT !.exc = "TypeError"]
    ELSE [st EXCEPT !.messages_sizes = Append(@, Len(event.message.s))]

\* the statements of the loop body after total_commits += 1 (metrics.py:66-69)
TallyCommit(st, event_data) ==
    IF AUTHOR_FIELD \notin DOMAIN event_data THEN [st EXCEPT !.exc = "KeyError"]
    ELSE LET s1 == [st EXCEPT !.contributors = CounterInc(@, event_data[AUTHOR_FIELD])]
             s2 == _update_companies(s1, event_data)
             s3 == _update_file_metrics(s2, event_data)
         IN IF s3.exc # "none" THEN s3 ELSE _update_message_size_metrics(s3, event_data)

\* the loop without the test of the event type
ProcessEvent_AnyType(st, event) ==
    LET counted == [st EXCEPT !.total_commits = @ + 1]
    IN IF "data" \notin DOMAIN event
       THEN [counted EXCEPT !.exc = "TypeError"]
       ELSE TallyCommit(counted, event.data)
\* one iteration of the loop of process_events
ProcessEvent(st, event) ==
    IF event.type # COMMIT_EVENT_TYPE THEN st
    ELSE LET counted == [st EXCEPT !.total_commits = @ + 1]
         IN IF "data" \notin DOMAIN event
            THEN [counted EXCEPT !.exc = "TypeError"]     \* event.get("data") is None
            ELSE TallyCommit(counted, event.data)

\* the counts set back at the start of every call
process_events_Reset(st, events) ==
    LET RECURSIVE Loop(_, _)
        Loop(s, es) ==
            IF es = <<>> \/ s.exc # "none" THEN s
            ELSE Loop(ProcessEvent(s, Head(es)), Tail(es))
    IN Loop(NewAnalyzer, events)
RECURSIVE process_events(_, _)
process_events(st, events) ==
    IF events = <<>> \/ st.exc # "none" THEN st
    ELSE process_events(ProcessEvent(st, Head(events)), Tail(events))

get_commit_count(st) == st.total_commits
get_contributor_count(st) == Len(st.contributors)

\* dict(self.file_types): the keys that were counted, with their counts
get_file_type_metrics(st) ==
    [key \in {st.file_types[i].key : i \in 1..Len(st.file_types)} |->
        CounterGet(st.file_types, key)]

get_commit_size_metrics(st) ==
    [added_lines |-> st.added_lines, removed_lines |-> st.removed_lines]

\* int(0.8 * n) and int(0.95 * n): the product of the double nearest to the
\* factor, truncated; it is the integer floor for every n below 2 000 000
regular_threshold(n) == (8 * n) \div 10
\* round(0.95 * n) in the place of int(0.95 * n)
casual_threshold_Round(n) == (95 * n + 50) \div 100
casual_threshold(n) == (95 * n) \div 100

\* the if / elif / else of the loop body of get_developer_categories
Bump_Strict(cat, acc, rt, ct) ==
    IF acc < rt THEN [cat EXCEPT !.core = @ + 1]
    ELSE IF acc <= ct THEN [cat EXCEPT !.regular = @ + 1]
    ELSE [cat EXCEPT !.casual = @ + 1]
Bump_NoCasual(cat, acc, rt, ct) ==
    IF acc <= rt THEN [cat EXCEPT !.core = @ + 1]
    ELSE IF acc <= ct THEN [cat EXCEPT !.regular = @ + 1]
    ELSE cat
Bump(cat, acc, rt, ct) ==
    IF acc <= rt THEN [cat EXCEPT !.core = @ + 1]
    ELSE IF acc <= ct THEN [cat EXCEPT !.regular = @ + 1]
    ELSE [cat EXCEPT !.casual = @ + 1]

RECURSIVE CategoryLoop(_, _, _, _, _)
CategoryLoop(ranked, rt, ct, acc_commits, cat) ==
    IF ranked = <<>> THEN cat
    ELSE LET acc == acc_commits + Head(ranked).n
         IN CategoryLoop(Tail(ranked), rt, ct, acc, Bump(cat, acc, rt, ct))

get_developer_categories(st) ==
    CategoryLoop(most_common(st.contributors),
                 regular_threshold(st.total_commits), casual_threshold(st.total_commits),
                 0, [core |-> 0, regular |-> 0, casual |-> 0])

\* a / b as Python computes it in floating point: the quotient of the two
Quotient(a, b) == [num |-> a, den |-> b]

RECURSIVE SeqSum(_)
SeqSum(q) == IF q = <<>> THEN 0 ELSE Head(q) + SeqSum(Tail(q))

\* sorted(list of integers)
RECURSIVE InsertAsc(_, _)
InsertAsc(sorted, x) ==
    IF sorted = <<>> THEN <<x>>
    ELSE IF Head(sorted) <= x THEN <<Head(sorted)>> \o InsertAsc(Tail(sorted), x)
    ELSE <<x>> \o sorted

RECURSIVE SortAsc(_)
SortAsc(q) == IF q = <<>> THEN <<>> ELSE InsertAsc(SortAsc(Tail(q)), Head(q))

\* the median taken of the list as it stands, not of the sorted list
MedianOf_Unsorted(sizes) == sizes[(Len(sizes) \div 2) + 1]
\* sorted(self.messages_sizes)[number // 2]
MedianOf(sizes) == SortAsc(sizes)[(Len(sizes) \div 2) + 1]

get_message_size_metrics(st) ==
    LET total == SeqSum(st.messages_sizes)
        number == Len(st.messages_sizes)
    IN [total |-> total,
        mean |-> IF number > 0 THEN Quotient(total, number) ELSE Quotient(0, 1),
        median |-> IF number > 0 THEN MedianOf(st.messages_sizes) ELSE 0]

\* self.total_commits / days_interval / 7; division by zero raises
get_commits_week_mean(st, days_interval) ==
    IF days_interval = 0 THEN [ok |-> FALSE, exc |-> "ZeroDivisionError"]
    ELSE [ok |-> TRUE, v |-> Quotient(st.total_commits, days_interval * 7)]

\* partial_contributions / self.total_commits > 0.5
OverHalf_Geq(partial, total) == 2 * partial >= total
OverHalf_Less(partial, total) == 2 * partial < total
OverHalf(partial, total) == 2 * partial > total

\* the loop shared by get_pony_factor and get_elephant_factor
RECURSIVE FactorLoop(_, _, _, _)
FactorLoop(ranked, total, partial, factor) ==
    IF ranked = <<>> THEN factor
    ELSE IF OverHalf(partial + Head(ranked).n, total) THEN factor + 1
    ELSE FactorLoop(Tail(ranked), total, partial + Head(ranked).n, factor + 1)

get_pony_factor(st) ==
    IF Len(st.contributors) = 0 THEN 0
    ELSE FactorLoop(most_common(st.contributors), st.total_commits, 0, 0)

get_elephant_factor(st) ==
    IF Len(st.companies) = 0 THEN 0
    ELSE FactorLoop(most_common(st.companies), st.total_commits, 0, 0)

-----------------------------------------------------------------------------
(* get_repository_metrics (metrics.py:215-265) on the events the search       *)
(* returns; a datetime is a number of hours                                  *)

DateTime(h) == [k |-> "datetime", hours |-> h]
\* (to_date - from_date).days
DaysBetween(from_date, to_date) == (to_date.hours - from_date.hours) \div 24

DEFAULT_DAYS == 365

\* analyzer = GitEventsAnalyzer(): a new instance, or one that shares the
\* fields of the instance before it
Constructed_Shared == Self
Constructed == NewAnalyzer

\* metrics["metrics"][prefix + "_" + name] = value
Flatten(prefix, metrics_set) ==
    [key \in {prefix \o "_" \o name : name \in DOMAIN metrics_set} |->
        metrics_set[CHOOSE name \in DOMAIN metrics_set : prefix \o "_" \o name = key]]

\* the metrics once the events are processed (metrics.py:242-265)
Assemble(st, from_date, to_date) ==
    LET days == IF from_date # JNull /\ to_date # JNull
                THEN DaysBetween(from_date, to_date) ELSE DEFAULT_DAYS
        mean == get_commits_week_mean(st, days)
    IN IF ~mean.ok THEN [ok |-> FALSE, raised |-> mean.exc]
       ELSE [ok |-> TRUE, metrics |->
              [total_commits |-> get_commit_count(st),
               total_contributors |-> get_contributor_count(st),
               pony_factor |-> get_pony_factor(st),
               elephant_factor |-> get_elephant_factor(st),
               commits_week_mean |-> mean.v]
              @@ Flatten("file_types", get_file_type_metrics(st))
              @@ Flatten("commit_size", get_commit_size_metrics(st))
              @@ Flatten("message_size", get_message_size_metrics(st))
              @@ Flatten("developer_categories", get_developer_categories(st))]

\* an exception of process_events leaves get_repository_metrics as it is
RunResult(st, from_date, to_date) ==
    IF st.exc # "none" THEN [ok |-> FALSE, raised |-> st.exc]
    ELSE Assemble(st, from_date, to_date)

get_repository_metrics(events, from_date, to_date) ==
    RunResult(process_events(Constructed, events), from_date, to_date)

-----------------------------------------------------------------------------
(* What a batch of events holds, read off the events themselves *)

HasPath(file) == "file" \in DOMAIN file /\ file.file # <<>>

\* the number an added / removed value stands for; 0 when it stands for none
LineValue(file, field) ==
    IF field \in DOMAIN file /\ file[field].k # "null" /\ IntOf(file[field]).ok
    THEN IntOf(file[field]).v ELSE 0

IsNullLine(file, field) == field \in DOMAIN file /\ file[field].k = "null"
IsWordLine(file, field) ==
    field \in DOMAIN file /\ file[field].k = "str" /\ ~IntOf(file[field]).ok

FilesOf(event) ==
    IF IsCommit(event) /\ "data" \in DOMAIN event /\ "files" \in DOMAIN event.data
    THEN event.data.files ELSE <<>>

\* a commit event that lacks something other than a numeric line value
IsBroken(event) ==
    /\ IsCommit(event)
    /\ \/ "data" \notin DOMAIN event
       \/ AUTHOR_FIELD \notin DOMAIN event.data
       \/ ("message" \in DOMAIN event.data /\ event.data.message.k # "str")
       \/ \E i \in 1..Len(FilesOf(event)) : "file" \notin DOMAIN FilesOf(event)[i]

RECURSIVE FeedFiles(_, _)
FeedFiles(f, files) ==
    IF files = <<>> THEN f
    ELSE LET file == Head(files)
             g == IF ~HasPath(file)
                  THEN [f EXCEPT !.blanks = @ \/ ("file" \in DOMAIN file /\ file.file = <<>>)]
                  ELSE [f EXCEPT
                          !.paths = @ + 1,
                          !.added = @ + LineValue(file, "added"),
                          !.removed = @ + LineValue(file, "removed"),
                          !.nulls = @ \/ IsNullLine(file, "added") \/ IsNullLine(file, "removed"),
                          !.words = @ \/ IsWordLine(file, "added") \/ IsWordLine(file, "removed")]
         IN FeedFiles(g, Tail(files))

RECURSIVE Feed(_, _)
Feed(f, events) ==
    IF events = <<>> THEN f
    ELSE Feed(FeedFiles([f EXCEPT !.broken = @ \/ IsBroken(Head(events))], FilesOf(Head(events))),
              Tail(events))

NoFed ==
    [paths |-> 0, added |-> 0, removed |-> 0,
     nulls |-> FALSE, words |-> FALSE, broken |-> FALSE, blanks |-> FALSE]

-----------------------------------------------------------------------------
(* Analyzer actions *)

\* no request made on the client yet
NoCall == [made |-> FALSE]

AInit ==
    /\ total_commits = 0
    /\ contributors = <<>>
    /\ companies = <<>>
    /\ file_types = <<>>
    /\ added_lines = 0
    /\ removed_lines = 0
    /\ messages_sizes = <<>>
    /\ exc = "none"
    /\ fed = NoFed
    /\ seen = <<>>
    /\ docs = <<>>
    /\ call = NoCall

\* analyzer.process_events(events); an exception that leaves the call is
\* kept in exc, the fields keep what the loop had done before it.  Nothing
\* catches the exception (get_repository_metrics lets it pass), so the
\* analyzer is not called again after it
ProcessEvents(events) ==
    /\ exc = "none"
    /\ total_commits + CommitsIn(events) <= MaxCommits
    /\ LET st == process_events(Self, events)
       IN /\ total_commits' = st.total_commits
          /\ contributors' = st.contributors
          /\ companies' = st.companies
          /\ file_types' = st.file_types
          /\ added_lines' = st.added_lines
          /\ removed_lines' = st.removed_lines
          /\ messages_sizes' = st.messages_sizes
          /\ exc' = st.exc
    /\ fed' = Feed(fed, events)
    /\ UNCHANGED pvars
    /\ UNCHANGED <<seen, docs, call>>

DoProcessEvents == \E events \in Batches : ProcessEvents(events)

\* the same call on the plain commits of a larger repository
ProcessCommits(events) ==
    /\ exc = "none"
    /\ total_commits + CommitsIn(events) <= MaxTally
    /\ LET st == process_events(Self, events)
       IN /\ total_commits' = st.total_commits
          /\ contributors' = st.contributors
          /\ companies' = st.companies
          /\ file_types' = st.file_types
          /\ added_lines' = st.added_lines
          /\ removed_lines' = st.removed_lines
          /\ messages_sizes' = st.messages_sizes
          /\ exc' = st.exc
    /\ fed' = Feed(fed, events)
    /\ UNCHANGED pvars
    /\ UNCHANGED <<seen, docs, call>>

DoProcessCommits == \E events \in PlainBatches : ProcessCommits(events)

\* the same call, the events handed over kept in seen; the events are those
\* of Events and an event of another type that has no data
RecordedEvents == Events \cup {[type |-> OTHER_EVENT_TYPE]}

ProcessRecorded(events) ==
    /\ exc = "none"
    /\ Len(seen) + Len(events) <= MaxSeen
    /\ LET st == process_events(Self, events)
       IN /\ total_commits' = st.total_commits
          /\ contributors' = st.contributors
          /\ companies' = st.companies
          /\ file_types' = st.file_types
          /\ added_lines' = st.added_lines
          /\ removed_lines' = st.removed_lines
          /\ messages_sizes' = st.messages_sizes
          /\ exc' = st.exc
    /\ fed' = Feed(fed, events)
    /\ seen' = seen \o events
    /\ UNCHANGED <<docs, call>>
    /\ UNCHANGED pvars

DoProcessRecorded ==
    \E events \in UNION { [1..n -> RecordedEvents] : n \in 0..MaxBatch } : ProcessRecorded(events)

\* what the search of get_repository_metrics may return for a repository,
\* and the bounds of the date range (None, or a time in hours)
RunEvents ==
    { <<>>,
      <<Commit([Author |-> AuthC, message |-> Msg, files |-> <<FEmptyPath, FCode, FOnlyRemoved>>]),
        [type |-> OTHER_EVENT_TYPE, data |-> [Author |-> AuthA, message |-> Msg, files |-> <<FCode>>]],
        Commit([Author |-> AuthA, message |-> Msg]),
        Commit([Author |-> AuthD, message |-> JStr(<<>>)])>>,
      <<Commit([message |-> Msg, files |-> <<FCode>>])>> }
RunDates == {JNull, DateTime(0), DateTime(12), DateTime(48)}

\* one run of get_repository_metrics: the analyzer it constructs takes the
\* place of the one before; docs keeps the last two runs
GetRepositoryMetrics(events, from_date, to_date) ==
    /\ LET st == process_events(Constructed, events)
           run == [events |-> events, from_date |-> from_date, to_date |-> to_date,
                   result |-> RunResult(st, from_date, to_date)]
       IN /\ total_commits' = st.total_commits
          /\ contributors' = st.contributors
          /\ companies' = st.companies
          /\ file_types' = st.file_types
          /\ added_lines' = st.added_lines
          /\ removed_lines' = st.removed_lines
          /\ messages_sizes' = st.messages_sizes
          /\ exc' = st.exc
          /\ docs' = IF Len(docs) < 2 THEN Append(docs, run) ELSE <<docs[2], run>>
    /\ fed' = Feed(NoFed, events)
    /\ UNCHANGED <<seen, call>>
    /\ UNCHANGED pvars

DoGetRepositoryMetrics ==
    \E events \in RunEvents, from_date \in RunDates, to_date \in RunDates :
        GetRepositoryMetrics(events, from_date, to_date)

-----------------------------------------------------------------------------
(* The task-status service and GrimoireLabClient (grimoirelab_client.py) *)

GRIMOIRELAB == "grimoirelab_metrics"
TRUSTABLE == "trustable_cli"
Variants == {GRIMOIRELAB, TRUSTABLE}

Repositories == {"r1", "r2"}
PackageIds == {"p1", "p2"}
\* a package without a git repository maps to None
NoRepo == ""

\* the day generate_metrics_when_ready starts; last_run is a day as well
StartDay == 10
LookbackDays(v) == IF v = GRIMOIRELAB THEN 7 ELSE 1
after_date(v) == StartDay - LookbackDays(v)

SLEEP_GRIMOIRELAB == 25
SLEEP_TRUSTABLE == 5
SleepSeconds(v) == IF v = GRIMOIRELAB THEN SLEEP_GRIMOIRELAB ELSE SLEEP_TRUSTABLE

\* --repository-timeout values tried (seconds)
Timeouts == {0, 15, 26}
\* seconds one iteration of the for loop may take
MaxDelay == 1
\* requests one exchange with the server may need
MaxAnswers == 3
\* polls counted per repository (the count saturates there)
MaxPolls == 4

TaskStatuses == {"pending", "running", "completed", "failed"}
JDate(d) == [k |-> "date", day |-> d]
LastRuns(v) == {JNull, JDate(after_date(v) - 1), JDate(after_date(v)), JDate(after_date(v) + 1)}

Http(code, body) == [kind |-> "http", code |-> code, body |-> body]
ConnError == [kind |-> "conn_error"]
TaskBody(status, last_run) ==
    [json |-> TRUE, results |-> <<[task |-> [status |-> status, last_run |-> last_run]]>>]
EmptyBody == [json |-> TRUE, results |-> <<>>]
ErrorBody == [json |-> TRUE, detail |-> "error"]
HtmlBody == [json |-> FALSE]
TokenBody == [json |-> TRUE, access |-> "token"]

TaskAnswers(v) == {Http(200, TaskBody(s, l)) : s \in TaskStatuses, l \in LastRuns(v)}
ErrorAnswers == {Http(c, b) : c \in {403, 404, 500}, b \in {ErrorBody, HtmlBody}}
Forbidden == Http(403, ErrorBody)
\* what the server may answer to a status query
StatusAnswers(v) == TaskAnswers(v) \cup {Http(200, EmptyBody), ConnError} \cup ErrorAnswers
\* what it may answer after a 403: to the token refresh, then to the re-sent query
FollowUps(v) ==
    {Http(200, TokenBody), Http(401, ErrorBody), Forbidden,
     Http(200, TaskBody("completed", JDate(after_date(v) + 1))),
     Http(200, TaskBody("running", JNull))}

Exchanges(v) ==
    {<<a>> : a \in StatusAnswers(v)}
    \cup UNION { {<<Forbidden>> \o t : t \in [1..n -> FollowUps(v)]} : n \in 1..(MaxAnswers - 1) }

Raise(e, used) == [kind |-> "raise", exc |-> e, used |-> used]
Response(a, used) == [kind |-> "response", resp |-> a, used |-> used]

\* _make_request and _refresh_auth_token against the answers the server gives
\* to the successive requests; used counts the requests sent.  "unanswered"
\* means the exchange needs more requests than answers were supplied.
RECURSIVE _make_request(_, _)
RECURSIVE _refresh_auth_token(_)

_refresh_auth_token(answers) ==
    LET r == _make_request(answers, TRUE)
    IN IF r.kind = "raise" THEN r
       ELSE IF r.resp.code >= 400 THEN Raise("HTTPError", r.used)    \* raise_for_status
       ELSE r

Resend(answers, used) ==
    IF used >= Len(answers) THEN Raise("unanswered", used)
    ELSE IF answers[used + 1].kind = "conn_error" THEN Raise("ConnectionError", used + 1)
    ELSE Response(answers[used + 1], used + 1)

_make_request(answers, has_refresh_token) ==
    IF answers = <<>> THEN Raise("unanswered", 0)
    ELSE LET a == Head(answers)
         IN IF a.kind = "conn_error" THEN Raise("ConnectionError", 1)
            ELSE IF a.code < 400 THEN Response(a, 1)
            ELSE IF a.code = 403
                 THEN IF ~has_refresh_token THEN Raise("HTTPError", 1)
                      ELSE LET rf == _refresh_auth_token(Tail(answers))
                           IN IF rf.kind = "raise" THEN [rf EXCEPT !.used = @ + 1]
                              ELSE Resend(answers, rf.used + 1)
            ELSE Response(a, 1)                                   \* return e.response

\* what the server may answer to the requests of one call, in order
ClientAnswers == {Http(200, TokenBody), Forbidden, Http(401, ErrorBody), ConnError}

\* client.get(uri) / client.post(uri) on a connected client
Call(answers, has_refresh_token) ==
    /\ ~call.made
    /\ call' = [made |-> TRUE, answers |-> answers, has_refresh_token |-> has_refresh_token,
                result |-> _make_request(answers, has_refresh_token)]
    /\ UNCHANGED <<seen, docs>>
    /\ UNCHANGED avars
    /\ UNCHANGED pvars

DoCall ==
    \E answers \in UNION { [1..n -> ClientAnswers] : n \in 1..MaxRequests },
       has_refresh_token \in BOOLEAN : Call(answers, has_refresh_token)

\* the comparison of last_run with the cutoff
Fresh_Geq(last_run, cutoff) == last_run.day >= cutoff
Fresh_Less(last_run, cutoff) == last_run.day < cutoff
Fresh(last_run, cutoff) == last_run.day > cutoff

\* task["status"] == "failed" is looked at by grimoirelab_metrics only
FailedIsReady(v, task) == v = GRIMOIRELAB /\ task.status = "failed"

\* repository_ready: [ready, exc, used]; exc is the exception that leaves it
repository_ready(v, answers, has_refresh_token) ==
    LET r == _make_request(answers, has_refresh_token)
        Out(ready, e) == [ready |-> ready, exc |-> e, used |-> r.used]
    IN IF r.kind = "raise"
       THEN IF r.exc = "HTTPError" THEN Out(FALSE, "none") ELSE Out(FALSE, r.exc)
       ELSE LET body == r.resp.body
            IN IF ~body.json THEN Out(FALSE, "JSONDecodeError")
               ELSE IF "results" \notin DOMAIN body THEN Out(FALSE, "KeyError")
               ELSE IF Len(body.results) = 0 THEN Out(FALSE, "IndexError")
               ELSE LET task == body.results[1].task
                    IN IF FailedIsReady(v, task) THEN Out(TRUE, "none")
                       ELSE IF task.last_run.k # "null"
                            THEN Out(Fresh(task.last_run, after_date(v)), "none")
                       ELSE Out(FALSE, "none")

\* the answer of a task that runs and has not run within the lookback window
IsRunningOld(v, answers) ==
    /\ Len(answers) = 1
    /\ answers[1].kind = "http" /\ answers[1].code = 200
    /\ "results" \in DOMAIN answers[1].body /\ Len(answers[1].body.results) = 1
    /\ LET task == answers[1].body.results[1].task
       IN task.status = "running" /\ task.last_run.k = "date" /\ task.last_run.day < after_date(v)

-----------------------------------------------------------------------------
(* schedule_repository and schedule_repositories (same code in both tools) *)

\* an error text is a sequence of words
ALREADY_EXISTS == <<"already", "exists">>
\* phrase in text
Contains(text, phrase) ==
    \E i \in 1..(Len(text) - Len(phrase) + 1) : SubSeq(text, i, i + Len(phrase) - 1) = phrase

ScheduledBody == [json |-> TRUE, message |-> "Task scheduled correctly"]
ExistsBody == [json |-> TRUE, error |-> <<"Repository", "already", "exists">>]
RefusedBody == [json |-> TRUE, error |-> <<"Method", "not", "allowed">>]

\* what the server may answer to add_repository
ScheduleAnswers ==
    {Http(201, ScheduledBody), Http(405, ExistsBody), Http(405, RefusedBody),
     Http(405, ErrorBody), Http(405, HtmlBody), Http(404, ErrorBody),
     Http(500, HtmlBody), Forbidden, ConnError}
\* what it may answer after a 403: to the token refresh, then to the re-sent post
ScheduleFollowUps ==
    {Http(200, TokenBody), Http(401, ErrorBody), Forbidden,
     Http(201, ScheduledBody), Http(405, ExistsBody), Http(500, HtmlBody)}

ScheduleExchanges ==
    {<<a>> : a \in ScheduleAnswers}
    \cup UNION { {<<Forbidden>> \o t : t \in [1..n -> ScheduleFollowUps]} : n \in 1..(MaxAnswers - 1) }

\* res.status_code == 405 and "already exists" in <the error text>
AlreadyExists_Any405(code, text) == code = 405
AlreadyExists(code, text) == code = 405 /\ Contains(text, ALREADY_EXISTS)

\* schedule_repository: [exc, used]; exc is the exception that leaves it
schedule_repository(answers, has_refresh_token) ==
    LET r == _make_request(answers, has_refresh_token)
        Out(e) == [exc |-> e, used |-> r.used]
    IN IF r.kind = "raise" THEN Out(r.exc)
       ELSE LET res == r.resp
            IN IF res.code < 400 THEN Out("none")                  \* raise_for_status passes
               ELSE IF res.code # 405 THEN Out("HTTPError")
               ELSE IF ~res.body.json THEN Out("JSONDecodeError")  \* res.json()
               ELSE IF "error" \notin DOMAIN res.body THEN Out("KeyError")
               ELSE IF AlreadyExists(res.code, res.body.error) THEN Out("none")
               ELSE Out("HTTPError")

\* schedule_repositories: HTTPError and ConnectionError are logged and raised
\* again, any other exception is not caught at all
Reraised_NotConnection(e) == e \notin {"none", "ConnectionError"}
Reraised(e) == e # "none"

NoSchedule == [repo |-> NoRepo, answers |-> <<>>, exc |-> "none"]

-----------------------------------------------------------------------------
(* The poller: grimoirelab_metrics / trustable_grimoirelab_score from the    *)
(* parsed SBOM on, generate_metrics_when_ready, and the output               *)

EmptyMap == [r \in {} |-> 0]
NullMetrics == [null |-> TRUE]
\* what get_repository_metrics returns for a repository
MetricsOf(r) == [metrics |-> [events_of |-> r]]

\* list(set(repo for repo in packages.values() if is_valid(repo)))
git_urls(pkgs) == {pkgs[p] : p \in DOMAIN pkgs} \ {NoRepo}

\* the SBOMs tried: two packages of one repository, of two repositories, one
\* package without a git repository, and none with one
PackageMaps ==
    { [p1 |-> "r1", p2 |-> "r1"], [p1 |-> "r1", p2 |-> "r2"],
      [p1 |-> "r1", p2 |-> NoRepo], [p1 |-> NoRepo, p2 |-> NoRepo] }

NoPoll == [repo |-> NoRepo, answers |-> <<>>, ready |-> FALSE, exc |-> "none"]

ReadsClock(v) == v = GRIMOIRELAB
\* the wall clock after d seconds; trustable_cli never reads it
Later(d) == IF ReadsClock(variant) THEN now + d ELSE now

Saturated(n) == IF n < MaxPolls THEN n + 1 ELSE n

PInit ==
    /\ variant \in Variants
    /\ timeout \in (IF variant = GRIMOIRELAB THEN Timeouts ELSE {0})
    /\ packages \in PackageMaps
    /\ refresh_token \in BOOLEAN
    /\ poll_seconds \in (IF ReadsClock(variant) THEN 0..MaxDelay ELSE {0})
    /\ pc = "main"
    /\ pending = {}
    /\ to_visit = {}
    /\ processed = {}
    /\ metrics = EmptyMap
    /\ now = 0
    /\ limit_time = 0
    /\ warnings = {}
    /\ output = [written |-> FALSE]
    /\ exit_code = -1
    /\ error = "none"
    /\ polls = [r \in Repositories |-> 0]
    /\ metrics_calls = [r \in Repositories |-> 0]
    /\ always_running = [r \in Repositories |-> TRUE]
    /\ last_poll = NoPoll
    /\ to_schedule = {}
    /\ scheduling = NoSchedule
    /\ schedule_calls = [r \in Repositories |-> 0]

\* the command up to the call of schedule_repositories
Main ==
    /\ pc = "main"
    /\ IF git_urls(packages) = {}
       THEN pc' = "exit" /\ exit_code' = 0 /\ UNCHANGED to_schedule     \* sys.exit(0)
       ELSE pc' = "schedule" /\ to_schedule' = git_urls(packages) /\ UNCHANGED exit_code
    /\ UNCHANGED <<scheduling, schedule_calls, variant, timeout, packages, pending, to_visit, processed, metrics,
                   now, limit_time, warnings, output, error, refresh_token, poll_seconds, polls,
                   metrics_calls, always_running, last_poll>>
    /\ UNCHANGED avars
    /\ UNCHANGED <<seen, docs, call>>

\* one iteration of the loop of schedule_repositories; an exception that
\* leaves it ends the command with code 1
Schedule(r, answers) ==
    /\ pc = "schedule"
    /\ r \in to_schedule
    /\ LET res == schedule_repository(answers, refresh_token)
       IN /\ res.exc # "unanswered"
          /\ res.used = Len(answers)
          /\ scheduling' = [repo |-> r, answers |-> answers, exc |-> res.exc]
          /\ schedule_calls' = [schedule_calls EXCEPT ![r] = @ + 1]
          /\ to_schedule' = to_schedule \ {r}
          /\ IF Reraised(res.exc)
             THEN pc' = "exit" /\ exit_code' = 1 /\ error' = res.exc
             ELSE UNCHANGED <<pc, exit_code, error>>
    /\ UNCHANGED <<variant, timeout, packages, pending, to_visit, processed, metrics,
                   now, limit_time, warnings, output, refresh_token, poll_seconds, polls,
                   metrics_calls, always_running, last_poll>>
    /\ UNCHANGED avars
    /\ UNCHANGED <<seen, docs, call>>

DoSchedule ==
    \E r \in Repositories, answers \in ScheduleExchanges : Schedule(r, answers)

\* schedule_repositories returns: its locals are gone
Scheduled ==
    /\ pc = "schedule"
    /\ to_schedule = {}
    /\ scheduling' = NoSchedule
    /\ pc' = "generate"
    /\ UNCHANGED <<to_schedule, schedule_calls, variant, timeout, packages, pending, to_visit,
                   processed, metrics, now, limit_time, warnings, output, exit_code, error,
                   refresh_token, poll_seconds, polls, metrics_calls, always_running, last_poll>>
    /\ UNCHANGED avars
    /\ UNCHANGED <<seen, docs, call>>

\* generate_metrics_when_ready up to its loop
Generate ==
    /\ pc = "generate"
    /\ limit_time' = Later(timeout)
    /\ pending' = git_urls(packages)
    /\ metrics' = EmptyMap
    /\ pc' = "while"
    /\ UNCHANGED <<to_schedule, scheduling, schedule_calls, variant, timeout, packages, to_visit, processed, now, warnings,
                   output, exit_code, error, refresh_token, poll_seconds, polls, metrics_calls,
                   always_running, last_poll>>
    /\ UNCHANGED avars
    /\ UNCHANGED <<seen, docs, call>>

\* while pending_repositories: processed = set(); for repository in ...
While ==
    /\ pc = "while"
    /\ IF pending # {}
       THEN pc' = "for" /\ processed' = {} /\ to_visit' = pending
       ELSE pc' = "after" /\ UNCHANGED <<processed, to_visit>>
    /\ UNCHANGED <<to_schedule, scheduling, schedule_calls, variant, timeout, packages, pending, metrics, now, limit_time,
                   warnings, output, exit_code, error, refresh_token, poll_seconds, polls,
                   metrics_calls, always_running, last_poll>>
    /\ UNCHANGED avars
    /\ UNCHANGED <<seen, docs, call>>

\* one iteration of the for loop: repository_ready, then get_repository_metrics
\* when ready; an exception that leaves either ends the command with code 1
Poll(r, answers, os_ok) ==
    /\ pc = "for"
    /\ r \in to_visit
    /\ LET res == repository_ready(variant, answers, refresh_token)
       IN /\ res.exc # "unanswered"
          /\ res.used = Len(answers)
          /\ to_visit' = to_visit \ {r}
          /\ polls' = [polls EXCEPT ![r] = Saturated(@)]
          /\ always_running' = [always_running EXCEPT ![r] = @ /\ IsRunningOld(variant, answers)]
          /\ last_poll' = [repo |-> r, answers |-> answers, ready |-> res.ready, exc |-> res.exc]
          /\ now' = Later(poll_seconds)
          /\ IF res.exc # "none"
             THEN /\ pc' = "exit" /\ exit_code' = 1 /\ error' = res.exc
                  /\ UNCHANGED <<metrics, processed, metrics_calls>>
             ELSE IF ~res.ready
             THEN UNCHANGED <<pc, exit_code, error, metrics, processed, metrics_calls>>
             ELSE /\ metrics_calls' = [metrics_calls EXCEPT ![r] = @ + 1]
                  /\ IF os_ok
                     THEN /\ metrics' = [x \in DOMAIN metrics \cup {r} |->
                                            IF x = r THEN MetricsOf(r) ELSE metrics[x]]
                          /\ processed' = processed \cup {r}
                          /\ UNCHANGED <<pc, exit_code, error>>
                     ELSE /\ pc' = "exit" /\ exit_code' = 1 /\ error' = "OpenSearchError"
                          /\ UNCHANGED <<metrics, processed>>
    /\ UNCHANGED <<to_schedule, scheduling, schedule_calls, variant, timeout, packages, pending, limit_time, warnings, output,
                   refresh_token, poll_seconds>>
    /\ UNCHANGED avars
    /\ UNCHANGED <<seen, docs, call>>

DoPoll ==
    \E r \in Repositories, answers \in Exchanges(variant), os_ok \in BOOLEAN :
        Poll(r, answers, os_ok)

\* the deadline passed only after the limit
InTime_Leq(v, t, limit) == IF v = GRIMOIRELAB THEN t <= limit ELSE TRUE
\* the deadline test of grimoirelab_metrics; trustable_cli has none
InTime(v, t, limit) == IF v = GRIMOIRELAB THEN t < limit ELSE TRUE

\* the repositories found ready kept in the pending set
Remaining_All(pend, proc) == pend
\* pending_repositories -= processed
Remaining(pend, proc) == pend \ proc

\* after the for loop: pending -= processed, then sleep and loop, or leave
EndFor ==
    /\ pc = "for"
    /\ to_visit = {}
    /\ pending' = Remaining(pending, processed)
    /\ IF pending' # {} /\ InTime(variant, now, limit_time)
       THEN now' = Later(SleepSeconds(variant)) /\ pc' = "while"
       ELSE /\ UNCHANGED now
            /\ pc' = IF variant = GRIMOIRELAB THEN "after" ELSE "while"
    /\ UNCHANGED <<to_schedule, scheduling, schedule_calls, variant, timeout, packages, to_visit, processed, metrics, limit_time,
                   warnings, output, exit_code, error, refresh_token, poll_seconds, polls,
                   metrics_calls, always_running, last_poll>>
    /\ UNCHANGED avars
    /\ UNCHANGED <<seen, docs, call>>

\* the timeout warnings (grimoirelab_metrics only) and return metrics
After ==
    /\ pc = "after"
    /\ warnings' = IF variant = GRIMOIRELAB THEN pending ELSE warnings
    /\ pc' = "returned"
    /\ UNCHANGED <<to_schedule, scheduling, schedule_calls, variant, timeout, packages, pending, to_visit, processed, metrics,
                   now, limit_time, output, exit_code, error, refresh_token, poll_seconds, polls,
                   metrics_calls, always_running, last_poll>>
    /\ UNCHANGED avars
    /\ UNCHANGED <<seen, docs, call>>

\* the entries without their repository field
PackageMetrics_NoRepository(pkgs, m) ==
    [p \in DOMAIN pkgs |->
        IF pkgs[p] # NoRepo /\ pkgs[p] \in DOMAIN m
        THEN [metrics |-> m[pkgs[p]].metrics]
        ELSE [metrics |-> NullMetrics]]

\* grimoirelab_metrics: one entry per package; trustable_cli: the metrics map
PackageMetrics(pkgs, m) ==
    [p \in DOMAIN pkgs |->
        IF pkgs[p] # NoRepo /\ pkgs[p] \in DOMAIN m
        THEN [metrics |-> m[pkgs[p]].metrics, repository |-> pkgs[p]]
        ELSE [metrics |-> NullMetrics]]

WriteOutput ==
    /\ pc = "returned"
    /\ output' = IF variant = GRIMOIRELAB
                 THEN [written |-> TRUE, packages |-> PackageMetrics(packages, metrics)]
                 ELSE [written |-> TRUE, repositories |-> metrics]
    /\ exit_code' = 0
    /\ pc' = "exit"
    /\ UNCHANGED <<to_schedule, scheduling, schedule_calls, variant, timeout, packages, pending, to_visit, processed, metrics,
                   now, limit_time, warnings, error, refresh_token, poll_seconds, polls,
                   metrics_calls, always_running, last_poll>>
    /\ UNCHANGED avars
    /\ UNCHANGED <<seen, docs, call>>

-----------------------------------------------------------------------------
(* Specifications *)

\* the poller at rest while the analyzer is exercised
PIdle ==
    /\ variant = GRIMOIRELAB
    /\ timeout = 0
    /\ packages = [p \in PackageIds |-> NoRepo]
    /\ refresh_token = FALSE
    /\ poll_seconds = 0
    /\ pc = "idle"
    /\ pending = {}
    /\ to_visit = {}
    /\ processed = {}
    /\ metrics = EmptyMap
    /\ now = 0
    /\ limit_time = 0
    /\ warnings = {}
    /\ output = [written |-> FALSE]
    /\ exit_code = -1
    /\ error = "none"
    /\ polls = [r \in Repositories |-> 0]
    /\ metrics_calls = [r \in Repositories |-> 0]
    /\ always_running = [r \in Repositories |-> TRUE]
    /\ last_poll = NoPoll
    /\ to_schedule = {}
    /\ scheduling = NoSchedule
    /\ schedule_calls = [r \in Repositories |-> 0]

Init == AInit /\ PIdle
Next == DoProcessEvents
Spec == Init /\ [][Next]_vars

\* the analyzer over the plain commits
TallyNext == DoProcessCommits
TallySpec == Init /\ [][TallyNext]_vars

PollInit == PInit /\ AInit
PollNext ==
    Main \/ DoSchedule \/ Scheduled \/ Generate \/ While \/ DoPoll \/ EndFor \/ After \/ WriteOutput
PollSpec == PollInit /\ [][PollNext]_vars
\* the analyzer, the events it was handed kept
AddNext == DoProcessRecorded
AddSpec == Init /\ [][AddNext]_vars

\* get_repository_metrics run again and again
RunNext == DoGetRepositoryMetrics
RunSpec == Init /\ [][RunNext]_vars

\* one call on the client
ClientNext == DoCall
ClientSpec == Init /\ [][ClientNext]_vars

\* the command is one sequential process that keeps running: every step that
\* is enabled is eventually taken (requests are answered, sleep returns)
PollFairSpec == PollSpec /\ WF_vars(PollNext)

-----------------------------------------------------------------------------
(* Properties of the analyzer (specification Spec) *)

RECURSIVE SumOver(_, _)
SumOver(c, idx) ==
    IF idx = {} THEN 0
    ELSE LET i == CHOOSE j \in idx : TRUE IN c[i].n + SumOver(c, idx \ {i})

\* the most commits any k keys of the tally c hold together
TopCommits(c, k) ==
    LET sums == {SumOver(c, S) : S \in {T \in SUBSET (1..Len(c)) : Cardinality(T) = k}}
    IN CHOOSE m \in sums : \A x \in sums : x <= m

\* f is the least number of keys of c that hold more than half of total
\* commits, and 0 for an empty tally
IsLeastMajority(c, total, f) ==
    IF c = <<>> THEN f = 0
    ELSE /\ f \in 1..Len(c)
         /\ 2 * TopCommits(c, f) > total
         /\ \A j \in 1..(f - 1) : ~(2 * TopCommits(c, j) > total)

\* C1: after any sequence of process_events calls the commit count, the sum of
\* the contributor tally and the number of recorded message sizes are equal
C1_TalliesAgree ==
    /\ total_commits = CounterSum(contributors)
    /\ total_commits = Len(messages_sizes)

\* C7: process_events never aborts, whatever is malformed or absent in a
\* commit event: no exception leaves a call
C7_NeverAborts == exc = "none"

\* C8: when every call processed its events to the end, get_pony_factor() is
\* the least number of contributors, largest first, holding strictly more
\* than half of total_commits, and 0 without contributors
C8_PonyFactor ==
    exc = "none" => IsLeastMajority(contributors, total_commits, get_pony_factor(Self))

\* two contributors with half of the commits each: the pony factor is 2
C8_Witness ==
    /\ exc = "none"
    /\ Len(contributors) = 2
    /\ contributors[1].n = contributors[2].n
    /\ total_commits = 2 * contributors[1].n
    /\ get_pony_factor(Self) = 2

\* C9: when every call processed its events to the end, get_elephant_factor()
\* is the least number of companies, largest first, holding more than half
\* of the total commits, and 0 without companies
C9_ElephantFactor ==
    exc = "none" => IsLeastMajority(companies, total_commits, get_elephant_factor(Self))

\* the step added only commits of contributors not seen before, one each
NewContributorsOnly ==
    /\ Len(contributors') > Len(contributors)
    /\ SubSeq(contributors', 1, Len(contributors)) = contributors
    /\ \A i \in (Len(contributors) + 1)..Len(contributors') : contributors'[i].n = 1

\* the step added only commits of companies not seen before, one each
NewCompaniesOnly ==
    /\ Len(companies') > Len(companies)
    /\ SubSeq(companies', 1, Len(companies)) = companies
    /\ \A i \in (Len(companies) + 1)..Len(companies') : companies'[i].n = 1

\* C10: commits of new distinct contributors never lower the pony factor,
\* commits of new distinct companies never lower the elephant factor, and
\* both are 0 for an analyzer that processed no event
C10_FactorsMonotone ==
    /\ [](total_commits = 0 /\ contributors = <<>> /\ companies = <<>>
            => get_pony_factor(Self) = 0 /\ get_elephant_factor(Self) = 0)
    /\ [][/\ NewContributorsOnly => get_pony_factor(Self') >= get_pony_factor(Self)
          /\ NewCompaniesOnly => get_elephant_factor(Self') >= get_elephant_factor(Self)]_vars

\* four commits of four contributors of two companies, one without company:
\* the factors grew to 3 and 2
C10_Witness ==
    /\ exc = "none"
    /\ total_commits = 4
    /\ Len(contributors) = 4
    /\ \A i \in 1..4 : contributors[i].n = 1
    /\ get_pony_factor(Self) = 3
    /\ Len(companies) = 2

-----------------------------------------------------------------------------
(* Properties of the derived metrics (specifications Spec and TallySpec) *)

\* floor(num / den) for num >= 0, den > 0
Floor(num, den) == CHOOSE k \in 0..num : den * k <= num /\ num < den * (k + 1)

\* the running sum at the i-th contributor in descending order of commits
RunningSum(i) == TopCommits(contributors, i)

\* C11: get_developer_categories counts as core the contributors, taken in
\* descending order of commits, whose running sum is <= floor(0.8 * total),
\* as regular those above it and <= floor(0.95 * total), as casual the rest;
\* a running sum exactly on a threshold is in the lower tier
C11_DeveloperCategories ==
    LET cat == get_developer_categories(Self)
        low == Floor(8 * total_commits, 10)
        high == Floor(95 * total_commits, 100)
        Ranks == 1..Len(contributors)
    IN /\ cat.core = Cardinality({i \in Ranks : RunningSum(i) <= low})
       /\ cat.regular = Cardinality({i \in Ranks : RunningSum(i) > low /\ RunningSum(i) <= high})
       /\ cat.casual = Cardinality({i \in Ranks : RunningSum(i) > high})

\* seven commits, 5 + 1 + 1: the running sums 5 and 6 are exactly the two
\* thresholds, so the contributors are core, regular and casual
C11_Witness ==
    /\ exc = "none"
    /\ total_commits = 7
    /\ Len(contributors) = 3
    /\ RunningSum(1) = 5 /\ RunningSum(2) = 6
    /\ get_developer_categories(Self) = [core |-> 1, regular |-> 1, casual |-> 1]

\* C12: the core, regular and casual counts of get_developer_categories()
\* sum to get_contributor_count()
C12_CategoriesCoverContributors ==
    LET cat == get_developer_categories(Self)
    IN cat.core + cat.regular + cat.casual = get_contributor_count(Self)

\* four contributors with 3 + 2 + 1 + 1 commits: two core, one regular, one
\* casual
C12_Witness ==
    /\ Len(contributors) = 4
    /\ total_commits = 7
    /\ get_contributor_count(Self) = 4
    /\ get_developer_categories(Self) = [core |-> 2, regular |-> 1, casual |-> 1]

RECURSIVE MapSum(_)
MapSum(m) ==
    IF DOMAIN m = {} THEN 0
    ELSE LET key == CHOOSE x \in DOMAIN m : TRUE
         IN m[key] + MapSum([x \in DOMAIN m \ {key} |-> m[x]])

\* C18: when every call processed its events to the end, the bucket counts
\* of get_file_type_metrics() sum to the number of file entries with a
\* non-empty path in the commit events processed, and code and other are the
\* only buckets
C18_FileTypeSum ==
    exc = "none" =>
        /\ MapSum(get_file_type_metrics(Self)) = fed.paths
        /\ DOMAIN get_file_type_metrics(Self) \subseteq {"code", "other"}

\* the commit of "c@y>" with an entry without path, a code file and a
\* Makefile: two entries counted, one in each bucket
C18_Witness ==
    /\ exc = "none"
    /\ total_commits = 1
    /\ contributors = <<[key |-> AuthC, n |-> 1]>>
    /\ fed.paths = 2
    /\ get_file_type_metrics(Self) = [code |-> 1, other |-> 1]

\* C19: get_file_type_metrics() always holds the three keys code, binary
\* and other, with 0 for a type of which no file was processed
C19_ThreeBuckets ==
    /\ DOMAIN get_file_type_metrics(Self) = {"code", "binary", "other"}
    /\ fed.paths = 0 => \A key \in {"code", "binary", "other"} : get_file_type_metrics(Self)[key] = 0

\* the events fed so far had file entries with a line value that is no
\* number, and lacked nothing else
OnlyLineValuesOff == (fed.nulls \/ fed.words) /\ ~fed.broken

\* C20: an added or removed value that is a non-numeric string or a null adds
\* nothing and raises no error; the file is counted in its bucket and the
\* numeric values are added
C20_NonNumericDropped ==
    OnlyLineValuesOff =>
        /\ exc = "none"
        /\ added_lines = fed.added
        /\ removed_lines = fed.removed
        /\ CounterSum(file_types) = fed.paths

\* the same for non-numeric strings alone, which the code does drop
WordsAreDropped ==
    (OnlyLineValuesOff /\ ~fed.nulls) =>
        /\ exc = "none"
        /\ added_lines = fed.added
        /\ removed_lines = fed.removed
        /\ CounterSum(file_types) = fed.paths

-----------------------------------------------------------------------------
(* Properties of the poller (specifications PollSpec and PollFairSpec) *)

Polled == last_poll.repo # NoRepo

\* the last status query was answered by an error status and nothing else
\* was exchanged (a 403 is answered by a token refresh when a token is held)
HttpErrorPoll ==
    /\ Polled
    /\ Len(last_poll.answers) = 1
    /\ last_poll.answers[1].kind = "http"
    /\ last_poll.answers[1].code >= 400

\* the last poll got a task record to look at, and the record itself
HasTask ==
    /\ Polled
    /\ LET r == _make_request(last_poll.answers, refresh_token)
       IN /\ r.kind = "response"
          /\ r.resp.body.json
          /\ "results" \in DOMAIN r.resp.body
          /\ Len(r.resp.body.results) > 0
PolledTask == _make_request(last_poll.answers, refresh_token).resp.body.results[1].task

\* C2: generate_metrics_when_ready terminates whatever the task-status
\* service answers: the command always comes to its end
C2_Terminates == <>(pc = "exit")

\* the grimoirelab_metrics variant, which has the deadline, does terminate
GrimoirelabTerminates == (variant = GRIMOIRELAB) => <>(pc = "exit")

\* C3: in grimoirelab_metrics a repository that always answers "running"
\* with a last_run older than the lookback window is never ready and gets no
\* metrics; a tick that ends at or after the deadline leads to the warnings,
\* the return and exit code 0 with the output written, never to an error;
\* and then the repository has its timeout warning and every package of it
\* is written with metrics = null
C3_NeverReadyTimesOut ==
    /\ [](variant = GRIMOIRELAB =>
            \A r \in Repositories :
                always_running[r] =>
                    /\ r \notin DOMAIN metrics
                    /\ metrics_calls[r] = 0
                    /\ (pc = "exit" /\ exit_code = 0 /\ r \in git_urls(packages)) =>
                          /\ r \in warnings
                          /\ output.written
                          /\ \A p \in PackageIds :
                                packages[p] = r => output.packages[p] = [metrics |-> NullMetrics])
    /\ [][variant = GRIMOIRELAB =>
            /\ (pc = "for" /\ to_visit = {} /\ now >= limit_time) => pc' = "after"
            /\ pc = "after" => (pc' = "returned" /\ warnings' = pending)
            /\ pc = "returned" => (pc' = "exit" /\ exit_code' = 0 /\ output'.written)]_vars

\* timeout 15 s: the repository was polled in two ticks, always running, and
\* the run ended with code 0, the warning and null metrics for its package
C3_Witness ==
    /\ variant = GRIMOIRELAB /\ timeout = 15
    /\ pc = "exit" /\ exit_code = 0
    /\ packages["p1"] = "r1"
    /\ always_running["r1"] /\ polls["r1"] = 2
    /\ "r1" \in warnings
    /\ output.written /\ output.packages["p1"] = [metrics |-> NullMetrics]

\* C4: a status query answered by an HTTP error status makes repository_ready
\* report not ready, without an exception, and the run is not aborted
C4_HttpErrorNotReady ==
    HttpErrorPoll => /\ ~last_poll.ready
                     /\ last_poll.exc = "none"
                     /\ error = "none"

\* C5: a task whose status is "failed" is ready on the poll that sees it,
\* whatever its last_run, and get_repository_metrics is called for it in that
\* tick
C5_FailedIsReady ==
    (HasTask /\ PolledTask.status = "failed") =>
        /\ last_poll.ready
        /\ metrics_calls[last_poll.repo] >= 1
        /\ (error = "none" => last_poll.repo \in DOMAIN metrics)

\* C6: a task whose status is not "failed" is ready exactly when last_run is
\* present and strictly later than the cutoff of the variant; otherwise the
\* repository stays pending and has no metrics
C6_ReadyIffFresh ==
    (HasTask /\ PolledTask.status # "failed") =>
        /\ last_poll.exc = "none"
        /\ last_poll.ready <=>
              (PolledTask.last_run.k = "date" /\ PolledTask.last_run.day > after_date(variant))
        /\ ~last_poll.ready =>
              (last_poll.repo \in pending /\ last_poll.repo \notin DOMAIN metrics)
        /\ (last_poll.ready /\ error = "none") => last_poll.repo \in DOMAIN metrics

\* a completed task whose last_run is exactly the cutoff: not ready, and the
\* repository is pending for the next tick
C6_Witness ==
    /\ HasTask
    /\ PolledTask.status = "completed"
    /\ PolledTask.last_run = JDate(after_date(variant))
    /\ ~last_poll.ready
    /\ pc = "while" /\ last_poll.repo \in pending

-----------------------------------------------------------------------------
(* Properties of the client and of scheduling (specification PollSpec) *)

\* what _make_request made of the exchange of the last status query
Requested == _make_request(last_poll.answers, refresh_token)

\* the last status query was answered 403, the client held a refresh token,
\* the token refresh succeeded and the query was sent again
RefreshedExchange ==
    /\ Polled /\ refresh_token
    /\ Len(last_poll.answers) = 3
    /\ last_poll.answers[1].code = 403
    /\ last_poll.answers[2] = Http(200, TokenBody)

\* C13: after a 403 with a refresh token the client refreshes the token once
\* and sends the request again exactly once; an answer < 400 to it is the
\* result, a failure of it is raised to the caller
C13_RefreshOnceResendOnce ==
    RefreshedExchange =>
        /\ Requested.used = 3
        /\ last_poll.answers[3].code < 400 => Requested = Response(last_poll.answers[3], 3)
        /\ last_poll.answers[3].code >= 400 => Requested.kind = "raise"

\* the re-sent request is sent once and its answer, when it is no failure,
\* is what the caller gets
ResendOnce ==
    RefreshedExchange =>
        /\ Requested.used = 3
        /\ last_poll.answers[3].code < 400 => Requested = Response(last_poll.answers[3], 3)

\* the last status query was answered 200 with a body of results
ResultsPoll ==
    /\ Polled
    /\ Len(last_poll.answers) = 1
    /\ last_poll.answers[1].kind = "http" /\ last_poll.answers[1].code = 200
    /\ "results" \in DOMAIN last_poll.answers[1].body
PolledResults == last_poll.answers[1].body.results

NotReadyAndPending ==
    /\ ~last_poll.ready
    /\ last_poll.exc = "none"
    /\ error = "none"
    /\ last_poll.repo \in pending

\* C14: a status answer with an empty result list, or with a task that has
\* no last_run and has not failed, makes repository_ready report not ready
\* without an error: the repository stays pending and the run goes on
C14_NoRecordNotReady ==
    (/\ ResultsPoll
     /\ \/ PolledResults = <<>>
        \/ /\ PolledResults # <<>>
           /\ PolledResults[1].task.last_run = JNull
           /\ PolledResults[1].task.status # "failed") => NotReadyAndPending

\* the same for a task that has not run yet alone
NotRunYetNotReady ==
    (/\ ResultsPoll
     /\ PolledResults # <<>>
     /\ PolledResults[1].task.last_run = JNull
     /\ PolledResults[1].task.status # "failed") => NotReadyAndPending

\* a schedule_repository call was made and schedule_repositories has not
\* returned; the last answer of its exchange
Answered == scheduling.repo # NoRepo
FinalAnswer == scheduling.answers[Len(scheduling.answers)]
\* that answer is the answer to add_repository itself (sent once, or sent
\* again after a token refresh that succeeded)
PostAnswered ==
    /\ Answered
    /\ \/ Len(scheduling.answers) = 1
       \/ Len(scheduling.answers) = 3 /\ scheduling.answers[2].code < 400

IsExists(a) ==
    /\ a.kind = "http" /\ a.code = 405
    /\ a.body.json /\ "error" \in DOMAIN a.body
    /\ \E i \in 1..(Len(a.body.error) - 1) :
          a.body.error[i] = "already" /\ a.body.error[i + 1] = "exists"

IsFailure(a) == a.kind = "conn_error" \/ (a.code >= 400 /\ ~IsExists(a))

C16_AlreadyExistsIsSuccess ==
    /\ []((PostAnswered /\ FinalAnswer.kind = "http") =>
            /\ IsExists(FinalAnswer) =>
                  (scheduling.exc = "none" /\ error = "none" /\ pc = "schedule")
            /\ (FinalAnswer.code >= 400 /\ ~IsExists(FinalAnswer)) =>
                  (scheduling.exc # "none" /\ error = scheduling.exc /\ pc = "exit"))
    /\ [][/\ (pc = "schedule" /\ to_schedule # {}) =>
                \E r \in to_schedule :
                    /\ to_schedule' = to_schedule \ {r}
                    /\ schedule_calls' = [schedule_calls EXCEPT ![r] = @ + 1]
                    /\ scheduling'.repo = r
          /\ (pc = "schedule" /\ to_schedule = {}) => pc' = "generate"
          /\ pc = "generate" => (pc' = "while" /\ pending' = git_urls(packages))
          /\ (pc = "while" /\ pending # {}) => (pc' = "for" /\ to_visit' = pending)]_vars

\* "r1" already existed: no error, and "r2" is scheduled next
C16_Witness ==
    /\ pc = "schedule"
    /\ scheduling = [repo |-> "r1", answers |-> <<Http(405, ExistsBody)>>, exc |-> "none"]
    /\ schedule_calls["r1"] = 1
    /\ to_schedule = {"r2"}
    /\ error = "none"

\* C17: the document of grimoirelab_metrics has one entry per package of the
\* SBOM: the metrics and the URI of its repository when that was found ready,
\* metrics = null when the package has no git URI or its repository never
\* became ready; a repository shared by packages is scheduled once, polled
\* once per tick and its metrics are computed once
C17_OneEntryPerPackage ==
    /\ []((variant = GRIMOIRELAB /\ output.written) =>
            /\ DOMAIN output.packages = DOMAIN packages
            /\ \A p \in DOMAIN packages :
                  IF packages[p] # NoRepo /\ metrics_calls[packages[p]] >= 1
                  THEN output.packages[p] =
                          [metrics |-> [events_of |-> packages[p]], repository |-> packages[p]]
                  ELSE output.packages[p] = [metrics |-> NullMetrics]
            /\ \A r \in Repositories :
                  /\ schedule_calls[r] = (IF \E p \in DOMAIN packages : packages[p] = r THEN 1 ELSE 0)
                  /\ metrics_calls[r] <= 1)
    /\ [][\A r \in Repositories :
             polls'[r] # polls[r] => (r \in to_visit /\ r \notin to_visit')]_vars

\* two packages of "r1": both entries carry its metrics and its URI, and it
\* was scheduled and polled once
C17_Witness ==
    /\ variant = GRIMOIRELAB
    /\ pc = "exit" /\ exit_code = 0 /\ output.written
    /\ packages = [p1 |-> "r1", p2 |-> "r1"]
    /\ output.packages["p1"] = [metrics |-> [events_of |-> "r1"], repository |-> "r1"]
    /\ output.packages["p2"] = output.packages["p1"]
    /\ schedule_calls["r1"] = 1 /\ polls["r1"] = 1 /\ metrics_calls["r1"] = 1

-----------------------------------------------------------------------------
(* Properties of the file loop (specification Spec) *)

\* C21: a file entry whose path is empty changes nothing (no bucket is
\* counted, its added and removed values are not added), and the other
\* entries of the same commit are still processed: after calls that ran to
\* the end on events with such an entry, the buckets sum to the entries with
\* a path and the line totals are the sums over those entries
C21_EmptyPathSkipped ==
    (exc = "none" /\ fed.blanks) =>
        /\ MapSum(get_file_type_metrics(Self)) = fed.paths
        /\ added_lines = fed.added
        /\ removed_lines = fed.removed

\* the commit of "c@y>" processed alone: the entry without path (5, 5) is
\* left out, the code file (12, 1) and the Makefile (-, -3) that follow it
\* are counted
C21_Witness ==
    /\ exc = "none"
    /\ fed.blanks
    /\ total_commits = 1
    /\ get_file_type_metrics(Self) = [code |-> 1, other |-> 1]
    /\ added_lines = 12
    /\ removed_lines = -2

-----------------------------------------------------------------------------
(* The last contributor (specification TallySpec) *)

\* C29: once commits were processed, the last contributor in descending
\* order of commits is casual: casual >= 1 and core + regular <= the number
\* of contributors - 1; a single contributor is casual, core 0 and regular 0
C29_LastIsCasual ==
    (exc = "none" /\ total_commits > 0) =>
        LET cat == get_developer_categories(Self)
        IN /\ cat.casual >= 1
           /\ cat.core + cat.regular <= get_contributor_count(Self) - 1
           /\ get_contributor_count(Self) = 1 => cat = [core |-> 0, regular |-> 0, casual |-> 1]

\* one contributor with three commits: casual alone
C29_Witness ==
    /\ exc = "none"
    /\ total_commits = 3
    /\ contributors = <<[key |-> AuthB, n |-> 3]>>
    /\ get_developer_categories(Self) = [core |-> 0, regular |-> 0, casual |-> 1]

-----------------------------------------------------------------------------
(* Properties of the analyzer over the events it was handed (AddSpec) *)

\* the analyzer with its exception
Analyzer == [Self EXCEPT !.exc = exc]

\* C22: process_events is additive across calls: after any number of calls
\* the analyzer (count, tallies, line totals, message sizes) is what a new
\* analyzer holds after one call with the concatenation of the batches
C22_Additive == Analyzer = process_events(NewAnalyzer, seen)

\* three events handed over in two calls or more (a call takes MaxBatch
\* events at most), all of them commits that were tallied
C22_Witness ==
    /\ Len(seen) = 3
    /\ MaxBatch < 3
    /\ exc = "none"
    /\ total_commits = 3
    /\ Len(contributors) = 2

Orders(n) == {f \in [1..n -> 1..n] : \A i, j \in 1..n : f[i] = f[j] => i = j}
Permuted(q, f) == [i \in 1..Len(q) |-> q[f[i]]]

\* every metric that is derived from the analyzer
Derived(st) == Assemble(st, JNull, JNull)

\* C28: the derived metrics (counts, factors, file types, sizes, categories,
\* weekly mean) do not depend on the order of the events processed, the
\* first-seen order among contributors with equal commits included
C28_OrderInsensitive ==
    exc = "none" =>
        \A f \in Orders(Len(seen)) :
            Derived(process_events(NewAnalyzer, Permuted(seen, f))) = Derived(Analyzer)

\* three commits of three contributors (all tied) whose message sizes were
\* not recorded in ascending order
C28_Witness ==
    /\ exc = "none"
    /\ Len(seen) = 3
    /\ Len(contributors) = 3
    /\ \A i \in 1..3 : contributors[i].n = 1
    /\ messages_sizes # SortAsc(messages_sizes)

\* C30: an event whose type is not the commit type leaves the analyzer as it
\* is, whatever its data and wherever it stands: the analyzer is what the
\* commit events alone give
C30_OtherTypesIgnored ==
    Analyzer = process_events(NewAnalyzer, SelectSeq(seen, IsCommit))

\* an event of another type, with an author, a message and a file, between
\* two commits
C30_Witness ==
    /\ Len(seen) = 3
    /\ IsCommit(seen[1]) /\ ~IsCommit(seen[2]) /\ IsCommit(seen[3])
    /\ "data" \in DOMAIN seen[2]
    /\ exc = "none"
    /\ total_commits = 2

-----------------------------------------------------------------------------
(* Properties of get_repository_metrics (specification RunSpec) *)

SameInput(a, b) ==
    a.events = b.events /\ a.from_date = b.from_date /\ a.to_date = b.to_date

\* C23: two runs of get_repository_metrics on the same events and the same
\* date range give the same metrics document, and the analyzer of a run
\* holds nothing of the run before it
C23_Idempotent ==
    /\ \A i, j \in DOMAIN docs : SameInput(docs[i], docs[j]) => docs[i].result = docs[j].result
    /\ docs # <<>> => Analyzer = process_events(NewAnalyzer, docs[Len(docs)].events)

\* the three commits run twice over the same two-day range
C23_Witness ==
    /\ Len(docs) = 2
    /\ SameInput(docs[1], docs[2])
    /\ docs[1].from_date = DateTime(0) /\ docs[1].to_date = DateTime(48)
    /\ docs[2].result.ok
    /\ docs[2].result.metrics["total_commits"] = 3
    /\ total_commits = 3

\* the events of a run are all well formed
CleanRun(run) == process_events(NewAnalyzer, run.events).exc = "none"

\* C27: get_repository_metrics completes for every combination of date
\* bounds, equal bounds and bounds less than a day apart included, and
\* always computes the weekly mean
C27_AlwaysCompletes ==
    \A i \in DOMAIN docs :
        CleanRun(docs[i]) =>
            /\ docs[i].result.ok
            /\ "commits_week_mean" \in DOMAIN docs[i].result.metrics

-----------------------------------------------------------------------------
(* Properties of one call on the client (specification ClientSpec) *)

\* C25: one get or post sends three requests at most (the request, one token
\* refresh, the request again) and then returns or raises, whatever the
\* server answers, a 403 to the token refresh included
C25_AtMostThreeRequests == call.made => call.result.used <= 3

-----------------------------------------------------------------------------
(* Properties of the polling loop (specification PollSpec) *)

\* between two ticks of generate_metrics_when_ready, and after the last
TickEnd == pc \in {"while", "after", "returned"}

Ready == DOMAIN metrics

\* C24: a repository goes from pending to ready or to timed out and nowhere
\* else: at the end of every tick the pending set and the keys of the
\* metrics map are disjoint and make up the repositories given; the metrics
\* of a repository are computed once; a repository found ready stays ready,
\* is not polled again and is not reported as timed out
C24_PendingToReady ==
    /\ [](TickEnd => (pending \cap Ready = {} /\ pending \cup Ready = git_urls(packages)))
    /\ [](\A r \in Repositories :
              /\ metrics_calls[r] <= 1
              /\ r \in Ready => (metrics_calls[r] = 1 /\ r \notin warnings))
    /\ [][\A r \in Ready : r \in DOMAIN metrics' /\ polls'[r] = polls[r]]_vars

\* two repositories between two ticks: r1 was found ready at its first poll,
\* r2 has been polled twice and is still pending
C24_Witness ==
    /\ pc = "while"
    /\ Ready = {"r1"}
    /\ pending = {"r2"}
    /\ polls["r1"] = 1 /\ metrics_calls["r1"] = 1
    /\ polls["r2"] = 2 /\ metrics_calls["r2"] = 0

\* the ticks run with timeout T and sleep S when no repository gets ready:
\* one more than the sleeps needed to reach T
TicksFor(T, S) == 1 + CHOOSE k \in 0..T : k * S >= T /\ \A j \in 0..(k - 1) : j * S < T

\* grimoirelab_metrics, a poll taking no time, no repository ready so far
NeverReady ==
    /\ variant = GRIMOIRELAB
    /\ poll_seconds = 0
    /\ Ready = {}
    /\ git_urls(packages) # {}

\* C26: with repositories that are never ready, timeout T and sleep S, every
\* pending repository is queried once per tick, the ticks are at 0, S, 2S,
\* ... up to and including the first one at or after T, and nothing is
\* polled or slept after it; T = 15 and S = 25 give two ticks
C26_TicksUntilTimeout ==
    /\ []((NeverReady /\ pc = "while") =>
             \A r \in git_urls(packages) : polls[r] * SLEEP_GRIMOIRELAB = now)
    /\ []((NeverReady /\ pc \in {"after", "returned"}) =>
             \A r \in git_urls(packages) :
                 /\ polls[r] = TicksFor(timeout, SLEEP_GRIMOIRELAB)
                 /\ now = (polls[r] - 1) * SLEEP_GRIMOIRELAB
                 /\ now >= timeout)
    /\ [][(NeverReady /\ pc \in {"after", "returned"}) => (polls' = polls /\ now' = now)]_vars

\* two repositories, timeout 15: both queried at 0 and at 25, four queries
C26_Witness ==
    /\ NeverReady
    /\ pc = "returned"
    /\ timeout = 15
    /\ git_urls(packages) = {"r1", "r2"}
    /\ polls["r1"] = 2 /\ polls["r2"] = 2
    /\ now = 25
    /\ warnings = {"r1", "r2"}

====
